---- MODULE Spec2Model ----
(***************************************************************************)
(* Functional (high-order) layers: network composition                     *)
(* (high_order_layers_torch/networks.py), the basis expansion layer        *)
(* (functional_layers/FunctionalConvolution.py) and the order-             *)
(* interpolation engine (interpolate_high_order_mlp).                      *)
(*                                                                         *)
(* Three specifications share the module:                                  *)
(*   SpecBuild   the constructors of HighOrderMLP and of the fully         *)
(*               (de)convolutional networks, one action per step;          *)
(*   SpecExpand  Expansion2d.__call__ and the functional convolutions;     *)
(*   SpecInterp  interpolate_high_order_mlp on two built networks.         *)
(* Python lists are sequences; a Python index i is position i + 1.         *)
(***************************************************************************)
EXTENDS Integers, Sequences, FiniteSets, TLC

VARIABLES
    cls,         \* build: the class under construction
    args,        \* build: the constructor's arguments
    pc,          \* build: position in __init__
    i,           \* build: the loop index (Python, from 0)
    layer_list,  \* build: layer_list so far
    built,       \* build: calls made to the layer factory
    inspected,   \* build: the list arguments read so far
    err,         \* build: the exception raised, or "none"
    module,      \* expand: the functional convolution (basis, n, its Conv2d)
    inputs,      \* expand: the tensor given to forward
    coeffs,      \* expand: basis(inputs), as the basis returned it
    res,         \* expand: res of Expansion2d.__call__
    xpc,         \* expand: position in forward
    network_in,  \* interp: the source network (model, weights per position)
    network_out, \* interp: the target network (model, weights per position)
    layers_in,   \* interp: layers_in, as positions of network_in.model
    layers_out,  \* interp: layers_out, as positions of network_out.model
    pair,        \* interp: pairs of the zip consumed so far
    calls,       \* interp: the calls made to interpolate_polynomial_layer
    ipc,         \* interp: position in interpolate_high_order_mlp
    ierr         \* interp: the exception raised, or "none"

buildVars == <<cls, args, pc, i, layer_list, built, inspected, err>>

expandVars == <<module, inputs, coeffs, res, xpc>>

interpVars ==
    <<network_in, network_out, layers_in, layers_out, pair, calls, ipc, ierr>>

vars == <<buildVars, expandVars, interpVars>>

----------------------------------------------------------------------------
(* Bounds of the model *)

MaxN == 2
MaxHidden == 2
MaxWidth == 2
MaxLen == 3
MaxDim == 2
MaxOrder == 3
MaxInterpHidden == 1
MaxSegments == 4
MaxSourceSegments == 2

(* Python's None, kept apart from every integer the model uses *)
None == -1

----------------------------------------------------------------------------
(* Python semantics used by the constructors *)

\* `a or b`: b when a is falsy (None or 0), else a
PyOr(a, b) == IF a = None \/ a = 0 THEN b ELSE a

\* `x is False` for an int x (the value of len(..) or of len(..) + 1):
\* an int object is never the False singleton
PyIntIsFalse(x) == FALSE

\* list[i] raises IndexError unless 0 <= i < len(list)
InRange(list, k) == k >= 0 /\ k < Len(list)

PyIndex(list, k) == list[k + 1]

----------------------------------------------------------------------------
(* Entries of a module sequence *)

\* a weight-bearing layer as the layer factories return it
Layer(ltype, nn, inF, outF, segs, kernel) ==
    [kind |-> "layer", layer_type |-> ltype, n |-> nn, in_features |-> inF,
     out_features |-> outF, segments |-> segs, kernel_size |-> kernel]

\* the normalization callable, appended as given: one object however often
NormEntry ==
    [kind |-> "norm", layer_type |-> "none", n |-> None, in_features |-> None,
     out_features |-> None, segments |-> None, kernel_size |-> None]

\* non_linearity(): a fresh module per call
NonLinEntry ==
    [kind |-> "nonlin", layer_type |-> "none", n |-> None, in_features |-> None,
     out_features |-> None, segments |-> None, kernel_size |-> None]

IsLayer(e) == e.kind = "layer"

RECURSIVE SelectLayers(_)
SelectLayers(s) ==
    IF s = <<>> THEN <<>>
    ELSE IF IsLayer(Head(s)) THEN <<Head(s)>> \o SelectLayers(Tail(s))
         ELSE SelectLayers(Tail(s))

----------------------------------------------------------------------------
(* HighOrderMLP.__init__ *)

MLPArgs ==
    [layer_type : {"continuous"},
     n : 1..MaxN,
     in_width : 1..MaxWidth,
     out_width : 1..MaxWidth,
     hidden_layers : 0..MaxHidden,
     hidden_width : 2..(MaxWidth + 1),
     n_in : {None} \cup 0..MaxN,
     n_out : {None} \cup 0..MaxN,
     n_hidden : {None} \cup 0..MaxN,
     non_linearity : BOOLEAN,
     in_segments : {1},
     out_segments : {2},
     hidden_segments : {3},
     normalization : BOOLEAN]

\* lines 61-63
StageN(a) ==
    [n_in |-> PyOr(a.n_in, a.n),
     n_hidden |-> PyOr(a.n_hidden, a.n),
     n_out |-> PyOr(a.n_out, a.n)]

\* lines 65-75
InputLayer(a) ==
    Layer(a.layer_type, StageN(a).n_in, a.in_width, a.hidden_width,
          a.in_segments, None)

\* a slip: the hidden layer declared on the network's input width
HiddenLayerFromInput(a) ==
    Layer(a.layer_type, StageN(a).n_hidden, a.in_width, a.hidden_width,
          a.hidden_segments, None)

\* lines 82-91
HiddenLayer(a) ==
    Layer(a.layer_type, StageN(a).n_hidden, a.hidden_width, a.hidden_width,
          a.hidden_segments, None)

\* lines 98-107
OutputLayer(a) ==
    Layer(a.layer_type, StageN(a).n_out, a.hidden_width, a.out_width,
          a.out_segments, None)

\* lines 77-80: what one pass of the loop appends before its hidden layer
HiddenPrefix(a) ==
    (IF a.normalization THEN <<NormEntry>> ELSE <<>>)
    \o (IF a.non_linearity THEN <<NonLinEntry>> ELSE <<>>)

\* a slip: the nonlinearity appended once before the output layer
OutputPrefixOnce(a) == IF a.non_linearity THEN <<NonLinEntry>> ELSE <<>>

\* lines 94-97: what is appended before the output layer
OutputPrefix(a) ==
    (IF a.non_linearity THEN <<NonLinEntry>> ELSE <<>>)
    \o (IF a.non_linearity THEN <<NonLinEntry>> ELSE <<>>)

MLPStart ==
    /\ cls = "HighOrderMLP"
    /\ pc = "start"
    /\ layer_list' = Append(layer_list, InputLayer(args))
    /\ built' = built + 1
    /\ i' = 0
    /\ pc' = "hidden"
    /\ UNCHANGED <<cls, args, inspected, err>>
    /\ UNCHANGED <<expandVars, interpVars>>

MLPHidden ==
    /\ cls = "HighOrderMLP"
    /\ pc = "hidden"
    /\ i < args.hidden_layers
    /\ layer_list' = layer_list \o HiddenPrefix(args) \o <<HiddenLayer(args)>>
    /\ built' = built + 1
    /\ i' = i + 1
    /\ UNCHANGED <<cls, args, pc, inspected, err>>
    /\ UNCHANGED <<expandVars, interpVars>>

MLPOutput ==
    /\ cls = "HighOrderMLP"
    /\ pc = "hidden"
    /\ ~(i < args.hidden_layers)
    /\ layer_list' = layer_list \o OutputPrefix(args) \o <<OutputLayer(args)>>
    /\ built' = built + 1
    /\ pc' = "done"
    /\ UNCHANGED <<cls, args, i, inspected, err>>
    /\ UNCHANGED <<expandVars, interpVars>>

----------------------------------------------------------------------------
(* HighOrderFullyConvolutionalNetwork.__init__ and                         *)
(* HighOrderFullyDeconvolutionalNetwork.__init__ (the same steps, another  *)
(* layer factory)                                                          *)

ConvClasses ==
    {"HighOrderFullyConvolutionalNetwork", "HighOrderFullyDeconvolutionalNetwork"}

\* a list argument of the given length; item k (Python index) holds base + k
ListOf(len, base) == [k \in 1..len |-> base + k - 1]

ChannelWidths == {1, 2}

ChannelLists == UNION {[1..len -> ChannelWidths] : len \in 0..(MaxLen + 1)}

ConvArgs ==
    [layer_type : {ListOf(len, 0) : len \in 0..MaxLen},
     n : {ListOf(len, 1) : len \in 0..MaxLen},
     channels : ChannelLists,
     segments : {ListOf(len, 1) : len \in 0..MaxLen},
     kernel_size : {ListOf(len, 1) : len \in 0..MaxLen},
     normalization : BOOLEAN]

\* a slip: only the empty channels list refused
ChannelsEmpty(a) == Len(a.channels) < 1

\* lines 134-137 / 197-200
ChannelsTooShort(a) == Len(a.channels) < 2

\* lines 139-146 / 202-209: a chained comparison, so
\* c == s and s == k and k == t and t == n and (n is False)
LengthsCheckFails(a) ==
    /\ Len(a.channels) = Len(a.segments)
    /\ Len(a.segments) = Len(a.kernel_size)
    /\ Len(a.kernel_size) = Len(a.layer_type)
    /\ Len(a.layer_type) = Len(a.n)
    /\ PyIntIsFalse(Len(a.n))

\* lines 151 / 214: len(channels) == len(n) + 1 and (len(n) + 1 is False)
LayerCountCheckFails(a) ==
    /\ Len(a.channels) = Len(a.n) + 1
    /\ PyIntIsFalse(Len(a.n) + 1)

\* lines 162-167 / 225-230: the subscripts of one factory call, in the order
\* Python evaluates them
CallSubscripts(k) ==
    <<[list |-> "layer_type", at |-> k],
      [list |-> "n", at |-> k],
      [list |-> "channels", at |-> k],
      [list |-> "channels", at |-> k + 1],
      [list |-> "kernel_size", at |-> k],
      [list |-> "segments", at |-> k]>>

SubscriptOk(a, s) == InRange(a[s.list], s.at)

CallRaises(a, k) ==
    \E j \in 1..Len(CallSubscripts(k)) : ~SubscriptOk(a, CallSubscripts(k)[j])

\* the lists read by the call: up to and including the first failing subscript
CallReads(a, k) ==
    {CallSubscripts(k)[j].list : j \in
        {m \in 1..Len(CallSubscripts(k)) :
            \A p \in 1..(m - 1) : SubscriptOk(a, CallSubscripts(k)[p])}}

\* lines 161-170 / 224-233
ConvLayer(a, k) ==
    Layer(PyIndex(a.layer_type, k), PyIndex(a.n, k), PyIndex(a.channels, k),
          PyIndex(a.channels, k + 1), PyIndex(a.segments, k),
          PyIndex(a.kernel_size, k))

\* lines 158-159 / 221-222
ConvPrefix(a) == IF a.normalization THEN <<NormEntry>> ELSE <<>>

ConvCheckChannels ==
    /\ cls \in ConvClasses
    /\ pc = "start"
    /\ inspected' = inspected \cup {"channels"}
    /\ IF ChannelsTooShort(args)
       THEN pc' = "error" /\ err' = "ValueError"
       ELSE pc' = "check_lengths" /\ err' = err
    /\ UNCHANGED <<cls, args, i, layer_list, built>>
    /\ UNCHANGED <<expandVars, interpVars>>

ConvCheckLengths ==
    /\ cls \in ConvClasses
    /\ pc = "check_lengths"
    /\ inspected' = inspected \cup {"segments", "kernel_size", "layer_type", "n"}
    /\ IF LengthsCheckFails(args)
       THEN pc' = "error" /\ err' = "ValueError"
       ELSE pc' = "check_layers" /\ err' = err
    /\ UNCHANGED <<cls, args, i, layer_list, built>>
    /\ UNCHANGED <<expandVars, interpVars>>

ConvCheckLayerCount ==
    /\ cls \in ConvClasses
    /\ pc = "check_layers"
    /\ IF LayerCountCheckFails(args)
       THEN pc' = "error" /\ err' = "ValueError"
       ELSE pc' = "loop" /\ err' = err
    /\ UNCHANGED <<cls, args, i, layer_list, built, inspected>>
    /\ UNCHANGED <<expandVars, interpVars>>

ConvLoop ==
    /\ cls \in ConvClasses
    /\ pc = "loop"
    /\ i < Len(args.channels) - 1
    /\ inspected' = inspected \cup CallReads(args, i)
    /\ IF CallRaises(args, i)
       THEN /\ layer_list' = layer_list \o ConvPrefix(args)
            /\ pc' = "error"
            /\ err' = "IndexError"
            /\ UNCHANGED <<i, built>>
       ELSE /\ layer_list' = layer_list \o ConvPrefix(args) \o <<ConvLayer(args, i)>>
            /\ built' = built + 1
            /\ i' = i + 1
            /\ UNCHANGED <<pc, err>>
    /\ UNCHANGED <<cls, args>>
    /\ UNCHANGED <<expandVars, interpVars>>

ConvDone ==
    /\ cls \in ConvClasses
    /\ pc = "loop"
    /\ ~(i < Len(args.channels) - 1)
    /\ pc' = "done"
    /\ UNCHANGED <<cls, args, i, layer_list, built, inspected, err>>
    /\ UNCHANGED <<expandVars, interpVars>>

----------------------------------------------------------------------------
(* Tensors: a shape and the elements in row-major order; axes and indices  *)
(* count from 0 as in torch                                                *)

RECURSIVE Product(_)
Product(s) == IF s = <<>> THEN 1 ELSE Head(s) * Product(Tail(s))

Size(shape) == Product(shape)

\* the stride of axis d (0-based): the product of the later dimensions
Stride(shape, d) == Product(SubSeq(shape, d + 2, Len(shape)))

\* flat offset of a multi-index
Ravel(shape, idx) ==
    LET RECURSIVE Sum(_)
        Sum(d) == IF d = Len(shape) THEN 0
                  ELSE idx[d + 1] * Stride(shape, d) + Sum(d + 1)
    IN Sum(0)

\* multi-index of a flat offset
Unravel(shape, f) ==
    [d \in 1..Len(shape) |-> (f \div Stride(shape, d - 1)) % shape[d]]

Tensor(shape, data) == [shape |-> shape, data |-> data]

At(t, idx) == t.data[Ravel(t.shape, idx) + 1]

\* Tensor.permute(*dims): axis k of the result is axis dims[k] of t
Permute(t, dims) ==
    LET shape2 == [k \in 1..Len(dims) |-> t.shape[dims[k] + 1]]
        Src(idx2) == [d \in 1..Len(dims) |->
                         idx2[CHOOSE k \in 1..Len(dims) : dims[k] = d - 1]]
    IN Tensor(shape2,
              [f \in 1..Size(shape2) |-> At(t, Src(Unravel(shape2, f - 1)))])

\* torch.reshape(t, shape): the same elements in the same row-major order
Reshape(t, shape) == Tensor(shape, t.data)

----------------------------------------------------------------------------
(* functional_layers/FunctionalConvolution.py *)

\* coefficient k of the basis at the scalar v, kept symbolic
Coef(k, v) == <<k, v>>

\* the basis applied to a tensor: the coefficient axis comes first,
\* (n, B, C, H, W)
BasisExpand(nn, t) ==
    LET shape2 == <<nn>> \o t.shape
    IN Tensor(shape2,
              [f \in 1..Size(shape2) |->
                  LET idx == Unravel(shape2, f - 1)
                  IN Coef(idx[1], At(t, Tail(idx)))])

\* a slip: the coefficient axis left in front of the channel axis
FirstPermutationCoefMajor == <<1, 3, 4, 0, 2>>

\* line 23
FirstPermutation == <<1, 3, 4, 2, 0>>

\* lines 24-27
MergedShape(t) ==
    <<t.shape[1], t.shape[2], t.shape[3], t.shape[4] * t.shape[5]>>

\* line 28
SecondPermutation == <<0, 3, 1, 2>>

\* a slip: the convolution declared on the logical channels
ConvInChannelsLogical(nn, in_channels) == in_channels

\* lines 37 / 49: Conv2d(in_channels=n*in_channels, **kwargs)
ConvInChannels(nn, in_channels) == nn * in_channels

\* lines 34-37 / 46-49
FunctionalConvolution2d(class, nn, in_channels) ==
    [class |-> class, n |-> nn, in_channels |-> in_channels,
     conv_in_channels |-> ConvInChannels(nn, in_channels)]

FunctionalClasses == {"FourierConvolution2d", "PolynomialConvolution2d"}

\* an input batch (B, C, H, W) whose elements are all different
InputTensors ==
    {Tensor(<<b, c, h, w>>, [f \in 1..(b * c * h * w) |-> f + 10]) :
        b \in 1..MaxDim, c \in 1..MaxDim, h \in 1..MaxDim, w \in 1..MaxDim}

NoTensor == Tensor(<<>>, <<>>)

\* line 22
ExpandBasis ==
    /\ xpc = "forward"
    /\ coeffs' = BasisExpand(module.n, inputs)
    /\ res' = BasisExpand(module.n, inputs)
    /\ xpc' = "basis"
    /\ UNCHANGED <<module, inputs>>
    /\ UNCHANGED <<buildVars, interpVars>>

\* line 23
ExpandPermute ==
    /\ xpc = "basis"
    /\ res' = Permute(res, FirstPermutation)
    /\ xpc' = "permuted"
    /\ UNCHANGED <<module, inputs, coeffs>>
    /\ UNCHANGED <<buildVars, interpVars>>

\* lines 24-27
ExpandReshape ==
    /\ xpc = "permuted"
    /\ res' = Reshape(res, MergedShape(res))
    /\ xpc' = "reshaped"
    /\ UNCHANGED <<module, inputs, coeffs>>
    /\ UNCHANGED <<buildVars, interpVars>>

\* lines 28-29
ExpandReturn ==
    /\ xpc = "reshaped"
    /\ res' = Permute(res, SecondPermutation)
    /\ xpc' = "expanded"
    /\ UNCHANGED <<module, inputs, coeffs>>
    /\ UNCHANGED <<buildVars, interpVars>>

\* lines 41-42 / 53-54: Conv2d refuses an input whose channel count is not
\* its in_channels
ConvForward ==
    /\ xpc = "expanded"
    /\ xpc' = IF res.shape[2] = module.conv_in_channels
              THEN "done" ELSE "channel_mismatch"
    /\ UNCHANGED <<module, inputs, coeffs, res>>
    /\ UNCHANGED <<buildVars, interpVars>>

----------------------------------------------------------------------------
(* Exact rational arithmetic: <<p, q>> with q > 0 stands for p / q *)

RECURSIVE Gcd(_, _)
Gcd(a, b) == IF b = 0 THEN a ELSE Gcd(b, a % b)

Abs(a) == IF a < 0 THEN -a ELSE a

Rat(p0, q0) ==
    LET g == Gcd(Abs(p0), Abs(q0))
        sgn == IF q0 < 0 THEN -1 ELSE 1
    IN IF p0 = 0 THEN <<0, 1>> ELSE <<sgn * (p0 \div g), sgn * (q0 \div g)>>

RInt(a) == <<a, 1>>

RAdd(x, y) ==
    LET g == Gcd(x[2], y[2])
    IN Rat(x[1] * (y[2] \div g) + y[1] * (x[2] \div g), (x[2] \div g) * y[2])

RNeg(x) == <<-x[1], x[2]>>

RSub(x, y) == RAdd(x, RNeg(y))

RMul(x, y) ==
    LET g1 == Gcd(Abs(x[1]), y[2])
        g2 == Gcd(Abs(y[1]), x[2])
    IN Rat((x[1] \div g1) * (y[1] \div g2), (x[2] \div g2) * (y[2] \div g1))

RDiv(x, y) == RMul(x, Rat(y[2], y[1]))

RFloor(x) == x[1] \div x[2]

----------------------------------------------------------------------------
(* The piecewise polynomial layer and its interpolation                    *)
(* (high_order_layers_torch.PolynomialLayers), width 1 -> 1 on [-1, 1]:    *)
(* `segments` equal sub-intervals, each with its own n nodal weights       *)

\* node m (0-based) of n in the local coordinate of a segment, [-1, 1]:
\* the Chebyshev-Lobatto points -cos(m pi / (n - 1)), rational for n <= 4
NodeLocal(nn, m) ==
    IF nn = 4 THEN <<RInt(-1), Rat(-1, 2), Rat(1, 2), RInt(1)>>[m + 1]
    ELSE Rat(2 * m - (nn - 1), nn - 1)

\* the segment (0-based) holding x; x outside the range goes to the end segment
SegmentOf(segs, x) ==
    LET j == RFloor(RDiv(RMul(RAdd(x, RInt(1)), RInt(segs)), RInt(2)))
    IN IF j < 0 THEN 0 ELSE IF j > segs - 1 THEN segs - 1 ELSE j

\* x in the local coordinate of segment j
ToLocal(segs, j, x) ==
    RSub(RMul(RAdd(x, RInt(1)), RInt(segs)), RInt(2 * j + 1))

\* the local coordinate t of segment j as a point of [-1, 1]
ToGlobal(segs, j, t) ==
    RSub(RDiv(RAdd(t, RInt(2 * j + 1)), RInt(segs)), RInt(1))

\* Lagrange polynomial m of the n nodes, at the local coordinate t
LagrangeBasis(nn, m, t) ==
    LET RECURSIVE Prod(_)
        Prod(r) ==
            IF r = nn THEN RInt(1)
            ELSE IF r = m THEN Prod(r + 1)
            ELSE RMul(RDiv(RSub(t, NodeLocal(nn, r)),
                           RSub(NodeLocal(nn, m), NodeLocal(nn, r))),
                      Prod(r + 1))
    IN Prod(0)

\* the polynomial of segment j of a layer with weights w, at the local t
SegmentValue(nn, w, j, t) ==
    LET RECURSIVE Sum(_)
        Sum(m) ==
            IF m = nn THEN RInt(0)
            ELSE RAdd(RMul(w[j * nn + m + 1], LagrangeBasis(nn, m, t)),
                      Sum(m + 1))
    IN Sum(0)

\* forward of one layer
LayerValue(layer, w, x) ==
    LET j == SegmentOf(layer.segments, x)
    IN SegmentValue(layer.n, w, j, ToLocal(layer.segments, j, x))

\* the source segment a target segment lies in (by its midpoint)
SourceSegment(l_in, l_out, j) ==
    SegmentOf(l_in.segments, ToGlobal(l_out.segments, j, RInt(0)))

\* interpolate_polynomial_layer: the target's weight at each of its nodes
\* is the source layer's value at that node
Resample(l_in, w_in, l_out) ==
    [q \in 1..(l_out.segments * l_out.n) |->
        LET j == (q - 1) \div l_out.n
            m == (q - 1) % l_out.n
            x == ToGlobal(l_out.segments, j, NodeLocal(l_out.n, m))
            js == SourceSegment(l_in, l_out, j)
        IN SegmentValue(l_in.n, w_in, js, ToLocal(l_in.segments, js, x))]

----------------------------------------------------------------------------
(* interpolate_high_order_mlp *)

RECURSIVE Repeat(_, _)
Repeat(s, k) == IF k = 0 THEN <<>> ELSE s \o Repeat(s, k - 1)

\* HighOrderMLP.__init__ as a whole: self.model
BuildMLP(a) ==
    <<InputLayer(a)>>
    \o Repeat(HiddenPrefix(a) \o <<HiddenLayer(a)>>, a.hidden_layers)
    \o OutputPrefix(a) \o <<OutputLayer(a)>>

\* the object at position p of a model: the normalization is one object
\* however often it was appended, every other entry is an object of its own
ObjectAt(model, p) == IF model[p].kind = "norm" THEN 0 ELSE p

\* model.modules() without the nn.Sequential itself: the children in order,
\* a module already seen is not yielded again
Modules(model) ==
    LET RECURSIVE From(_)
        From(p) ==
            IF p > Len(model) THEN <<>>
            ELSE IF \E q \in 1..(p - 1) : ObjectAt(model, q) = ObjectAt(model, p)
                 THEN From(p + 1)
                 ELSE <<p>> \o From(p + 1)
    IN From(1)

\* a slip: the pairs shifted by one on the source side
ZipShifted(a, b) ==
    [k \in 1..(IF Len(a) < Len(b) THEN Len(a) ELSE Len(b)) |->
        <<a[(k % Len(a)) + 1], b[k]>>]

\* zip(a, b): as many pairs as the shorter list has entries
Zip(a, b) ==
    [k \in 1..(IF Len(a) < Len(b) THEN Len(a) ELSE Len(b)) |-> <<a[k], b[k]>>]

SourceOrders == {2}

TargetOrders == {2, 3, 4}

\* the arguments of the networks handed to the engine: width 1 throughout,
\* one order and one segment count for all stages
InterpArgs(nn, segs, hidden, nonlin, norm) ==
    [layer_type |-> "discontinuous", n |-> nn, in_width |-> 1, out_width |-> 1,
     hidden_layers |-> hidden, hidden_width |-> 1, n_in |-> None,
     n_out |-> None, n_hidden |-> None, non_linearity |-> nonlin,
     in_segments |-> segs, out_segments |-> segs, hidden_segments |-> segs,
     normalization |-> norm]

WeightValues == {-1, 1}

\* the weights of a trained source layer: the entries of seed in rotation,
\* started at the layer's position
SeedWeights(seed, layer, p) ==
    [q \in 1..(layer.segments * layer.n) |-> RInt(seed[((p + q) % 3) + 1])]

\* the weights of a freshly constructed layer
FreshWeights(layer) == [q \in 1..(layer.segments * layer.n) |-> RInt(0)]

\* a network after training: its model and the weights of each layer
TrainedNetwork(a, seed) ==
    LET model == BuildMLP(a)
    IN [args |-> a,
        model |-> model,
        w |-> [p \in 1..Len(model) |->
                  IF IsLayer(model[p]) THEN SeedWeights(seed, model[p], p)
                  ELSE <<>>]]

\* a network as constructed
FreshNetwork(a) ==
    LET model == BuildMLP(a)
    IN [args |-> a,
        model |-> model,
        w |-> [p \in 1..Len(model) |->
                  IF IsLayer(model[p]) THEN FreshWeights(model[p]) ELSE <<>>]]

\* nn.Sequential.forward (lines 112-113) of a model of weight-bearing layers
Forward(net, x) ==
    LET RECURSIVE Go(_, _)
        Go(p, v) ==
            IF p > Len(net.model) THEN v
            ELSE Go(p + 1, LayerValue(net.model[p], net.w[p], v))
    IN Go(1, x)

\* lines 380-391
InterpStart ==
    /\ ipc = "start"
    /\ layers_in' = Modules(network_in.model)
    /\ layers_out' = Modules(network_out.model)
    /\ pair' = 0
    /\ ipc' = "loop"
    /\ UNCHANGED <<network_in, network_out, calls, ierr>>
    /\ UNCHANGED <<buildVars, expandVars>>

NextPair == Zip(layers_in, layers_out)[pair + 1]

\* lines 393-394, a pair of weight-bearing layers: the target layer's
\* weights are overwritten
InterpLayerPair ==
    /\ ipc = "loop"
    /\ pair < Len(Zip(layers_in, layers_out))
    /\ LET p_in == NextPair[1]
           p_out == NextPair[2]
       IN /\ IsLayer(network_in.model[p_in])
          /\ IsLayer(network_out.model[p_out])
          /\ calls' = Append(calls, <<p_in, p_out>>)
          /\ network_out' =
                [network_out EXCEPT !.w[p_out] =
                    Resample(network_in.model[p_in], network_in.w[p_in],
                             network_out.model[p_out])]
    /\ pair' = pair + 1
    /\ UNCHANGED <<network_in, layers_in, layers_out, ipc, ierr>>
    /\ UNCHANGED <<buildVars, expandVars>>

\* lines 393-394, a pair with a module that is no weight-bearing layer:
\* the call is made all the same; what interpolate_polynomial_layer does
\* with such a module is left open (it returns, or it raises)
InterpOtherPair ==
    /\ ipc = "loop"
    /\ pair < Len(Zip(layers_in, layers_out))
    /\ ~(/\ IsLayer(network_in.model[NextPair[1]])
         /\ IsLayer(network_out.model[NextPair[2]]))
    /\ calls' = Append(calls, NextPair)
    /\ \/ /\ pair' = pair + 1
          /\ UNCHANGED <<ipc, ierr>>
       \/ /\ ipc' = "error"
          /\ ierr' = "AttributeError"
          /\ UNCHANGED pair
    /\ UNCHANGED <<network_in, network_out, layers_in, layers_out>>
    /\ UNCHANGED <<buildVars, expandVars>>

\* the zip is exhausted: the function returns
InterpReturn ==
    /\ ipc = "loop"
    /\ ~(pair < Len(Zip(layers_in, layers_out)))
    /\ ipc' = "done"
    /\ UNCHANGED <<network_in, network_out, layers_in, layers_out, pair,
                   calls, ierr>>
    /\ UNCHANGED <<buildVars, expandVars>>

----------------------------------------------------------------------------
(* The specifications: each starts its own part of the program and leaves   *)
(* the other parts idle                                                     *)

BuildIdle ==
    /\ cls = "none"
    /\ args = <<>>
    /\ pc = "idle"
    /\ i = 0
    /\ layer_list = <<>>
    /\ built = 0
    /\ inspected = {}
    /\ err = "none"

ExpandIdle ==
    /\ module = FunctionalConvolution2d("none", 1, 1)
    /\ inputs = NoTensor
    /\ coeffs = NoTensor
    /\ res = NoTensor
    /\ xpc = "idle"

InterpIdle ==
    /\ network_in = <<>>
    /\ network_out = <<>>
    /\ layers_in = <<>>
    /\ layers_out = <<>>
    /\ pair = 0
    /\ calls = <<>>
    /\ ipc = "idle"
    /\ ierr = "none"

InitExpand ==
    /\ module \in {FunctionalConvolution2d(class, nn, c) :
                      class \in FunctionalClasses, nn \in 1..MaxOrder,
                      c \in 1..MaxDim}
    /\ inputs \in InputTensors
    /\ coeffs = NoTensor
    /\ res = NoTensor
    /\ xpc = "forward"
    /\ BuildIdle
    /\ InterpIdle

NextExpand ==
    \/ ExpandBasis
    \/ ExpandPermute
    \/ ExpandReshape
    \/ ExpandReturn
    \/ ConvForward

InitInterp ==
    /\ \E n1 \in SourceOrders, s1 \in 1..MaxSourceSegments,
          h1 \in 0..MaxInterpHidden, nl1 \in BOOLEAN, norm1 \in BOOLEAN,
          seed \in [1..3 -> WeightValues] :
            network_in =
                TrainedNetwork(InterpArgs(n1, s1, h1, nl1, norm1), seed)
    /\ \E n2 \in TargetOrders, s2 \in 1..MaxSegments,
          h2 \in 0..MaxInterpHidden, nl2 \in BOOLEAN, norm2 \in BOOLEAN :
            network_out =
                FreshNetwork(InterpArgs(n2, s2, h2, nl2, norm2))
    /\ layers_in = <<>>
    /\ layers_out = <<>>
    /\ pair = 0
    /\ calls = <<>>
    /\ ipc = "start"
    /\ ierr = "none"
    /\ BuildIdle
    /\ ExpandIdle

NextInterp ==
    \/ InterpStart
    \/ InterpLayerPair
    \/ InterpOtherPair
    \/ InterpReturn


InitBuild ==
    /\ \/ cls = "HighOrderMLP" /\ args \in MLPArgs
       \/ cls \in ConvClasses /\ args \in ConvArgs
    /\ pc = "start"
    /\ i = 0
    /\ layer_list = <<>>
    /\ built = 0
    /\ inspected = {}
    /\ err = "none"
    /\ ExpandIdle
    /\ InterpIdle

NextBuild ==
    \/ MLPStart
    \/ MLPHidden
    \/ MLPOutput
    \/ ConvCheckChannels
    \/ ConvCheckLengths
    \/ ConvCheckLayerCount
    \/ ConvLoop
    \/ ConvDone

SpecBuild == InitBuild /\ [][NextBuild]_vars

SpecExpand == InitExpand /\ [][NextExpand]_vars

SpecInterp == InitInterp /\ [][NextInterp]_vars

----------------------------------------------------------------------------
(* Properties of the constructors (SpecBuild) *)

Layers == SelectLayers(layer_list)

\* position in s of its k-th weight-bearing layer
LayerPos(s, k) ==
    CHOOSE p \in 1..Len(s) :
        IsLayer(s[p]) /\ Cardinality({q \in 1..p : IsLayer(s[q])}) = k

KindAt(s, p) == IF p >= 1 /\ p <= Len(s) THEN s[p].kind ELSE "none"

CountKind(s, kind) == Cardinality({p \in 1..Len(s) : s[p].kind = kind})

\* the per-layer lists do not fit the channels list
ListsMismatch(a) ==
    \/ Len(a.channels) - 1 /= Len(a.segments)
    \/ Len(a.segments) /= Len(a.kernel_size)
    \/ Len(a.kernel_size) /= Len(a.layer_type)
    \/ Len(a.layer_type) /= Len(a.n)
    \/ Len(a.channels) /= Len(a.n) + 1

PastValidation == pc \in {"loop", "done", "error"}

\* C5: a (de)convolutional network whose per-layer lists do not fit (and
\* whose channels list has at least 2 entries) is refused by the validation
\* step with a ValueError before any layer is built.
C5_MismatchedListsRefused ==
    (cls \in ConvClasses /\ ~ChannelsTooShort(args) /\ ListsMismatch(args)
        /\ PastValidation)
    => (pc = "error" /\ err = "ValueError" /\ built = 0)

\* C6: a (de)convolutional network with fewer than 2 channels is refused
\* with a ValueError by the first step: no layer is built, nothing is
\* appended and no list other than channels has been read.
C6_ShortChannelsRefused ==
    (cls \in ConvClasses /\ Len(args.channels) < 2 /\ pc /= "start")
    => /\ pc = "error"
       /\ err = "ValueError"
       /\ built = 0
       /\ layer_list = <<>>
       /\ inspected = {"channels"}

C6_Witness ==
    /\ cls \in ConvClasses
    /\ Len(args.channels) = 1
    /\ Len(args.n) = 2
    /\ args.normalization
    /\ pc = "error"

\* consecutive weight-bearing layers chain
Chains(ls) ==
    \A k \in 1..(Len(ls) - 1) : ls[k].out_features = ls[k + 1].in_features

\* C8: in a constructed network consecutive weight-bearing layers chain;
\* HighOrderMLP has hidden_layers + 2 of them, of widths in_width ->
\* hidden_width -> ... -> hidden_width -> out_width; a (de)convolutional
\* network has len(channels) - 1, layer k mapping channels[k] -> channels[k+1].
C8_LayersChain ==
    pc = "done" =>
        /\ Chains(Layers)
        /\ cls = "HighOrderMLP" =>
            /\ Len(Layers) = args.hidden_layers + 2
            /\ Layers[1].in_features = args.in_width
            /\ \A k \in 1..(Len(Layers) - 1) :
                   Layers[k].out_features = args.hidden_width
            /\ Layers[Len(Layers)].out_features = args.out_width
        /\ cls \in ConvClasses =>
            /\ Len(Layers) = Len(args.channels) - 1
            /\ \A k \in 1..Len(Layers) :
                   /\ Layers[k].in_features = args.channels[k]
                   /\ Layers[k].out_features = args.channels[k + 1]

C8_Witness ==
    /\ pc = "done"
    /\ cls = "HighOrderMLP"
    /\ args.hidden_layers = 2
    /\ args.in_width /= args.hidden_width
    /\ args.out_width /= args.hidden_width
    /\ Len(Layers) = 4

C10_NormalizationBetweenLayers ==
    (pc = "done" /\ args.normalization) =>
        /\ \A k \in 1..(Len(Layers) - 1) :
               KindAt(layer_list, LayerPos(layer_list, k) + 1) = "norm"
        /\ \A p \in 1..Len(layer_list) :
               layer_list[p].kind = "norm" =>
                   /\ p > LayerPos(layer_list, 1)
                   /\ p < LayerPos(layer_list, Len(Layers))

----------------------------------------------------------------------------
(* Properties of the expansion (SpecExpand) *)

Expanded == xpc \in {"expanded", "done", "channel_mismatch"}

\* C4: for inputs of shape (B, C, H, W) and basis coefficients laid out
\* (n, B, C, H, W), Expansion2d returns shape (B, C*n, H, W) whose element
\* [b, c*n + k, h, w] is coefficient k of input element [b, c, h, w].
C4_ExpansionLayout ==
    Expanded =>
        LET B == inputs.shape[1]
            C == inputs.shape[2]
            H == inputs.shape[3]
            W == inputs.shape[4]
        IN /\ res.shape = <<B, C * module.n, H, W>>
           /\ \A b \in 0..(B - 1), c \in 0..(C - 1), k \in 0..(module.n - 1),
                 h \in 0..(H - 1), w \in 0..(W - 1) :
                  /\ At(res, <<b, c * module.n + k, h, w>>)
                        = At(coeffs, <<k, b, c, h, w>>)
                  /\ At(res, <<b, c * module.n + k, h, w>>)
                        = Coef(k, At(inputs, <<b, c, h, w>>))

C4_Witness ==
    /\ xpc = "expanded"
    /\ module.n = 3
    /\ inputs.shape = <<2, 2, 2, 2>>
    /\ At(res, <<1, 5, 0, 1>>) = Coef(2, At(inputs, <<1, 1, 0, 1>>))

\* C7: the convolution of a functional convolution built with order n and
\* in_channels c declares n*c input channels, the channel count of the
\* expansion of a c-channel input, so forward meets no channel mismatch.
C7_ConvWidthMatchesExpansion ==
    /\ module.conv_in_channels = module.n * module.in_channels
    /\ (Expanded /\ inputs.shape[2] = module.in_channels) =>
           /\ res.shape[2] = module.conv_in_channels
           /\ xpc /= "channel_mismatch"

C7_Witness ==
    /\ xpc = "done"
    /\ module.class = "FourierConvolution2d"
    /\ module.n = 3
    /\ module.in_channels = 2
    /\ inputs.shape[2] = 2
    /\ res.shape[2] = 6

----------------------------------------------------------------------------
(* Properties of the interpolation engine (SpecInterp) *)

NumLayers(net) == Len(SelectLayers(net.model))

\* the model holds weight-bearing layers only
Plain(net) == NumLayers(net) = Len(net.model)

FreshTarget ==
    \A p \in 1..Len(network_out.model) :
        IsLayer(network_out.model[p]) =>
            network_out.w[p] = FreshWeights(network_out.model[p])

\* inputs spanning the domain [-1, 1]
TestPoints == {Rat(k, 6) : k \in -6..6}

SameFunction ==
    \A x \in TestPoints : Forward(network_out, x) = Forward(network_in, x)

IdenticalTopology ==
    /\ network_in.args.hidden_layers = network_out.args.hidden_layers
    /\ Plain(network_in)
    /\ Plain(network_out)

C2_LayerCountMismatchRefused ==
    (ipc /= "idle" /\ NumLayers(network_in) /= NumLayers(network_out))
    => /\ calls = <<>>
       /\ FreshTarget
       /\ ipc \in {"done", "error"} =>
              (ipc = "error" /\ ierr = "StructuralMismatch")

\* C3: the k-th call of the per-layer interpolation is on the k-th
\* weight-bearing layer of the source and the k-th weight-bearing layer of
\* the target; no call is made on a normalization or nonlinearity entry.
C3_OnlyLayerPairsInOrder ==
    ipc /= "idle" =>
        \A k \in 1..Len(calls) :
            /\ IsLayer(network_in.model[calls[k][1]])
            /\ IsLayer(network_out.model[calls[k][2]])
            /\ calls[k][1] = LayerPos(network_in.model, k)
            /\ calls[k][2] = LayerPos(network_out.model, k)

----------------------------------------------------------------------------
(* Per-stage basis orders of HighOrderMLP (SpecBuild) *)

\* the order a stage is to have: the given value, the global n when unset
OrderAsGiven(given, global) == IF given = None THEN global ELSE given

\* C11: in a built HighOrderMLP the input layer has order n_in, every
\* hidden layer n_hidden and the output layer n_out whenever that value is
\* given, and the global n exactly when it is None: a given value is never
\* replaced by n.
C11_StageOrdersAsGiven ==
    (cls = "HighOrderMLP" /\ pc = "done") =>
        /\ Layers[1].n = OrderAsGiven(args.n_in, args.n)
        /\ \A k \in 2..(Len(Layers) - 1) :
               Layers[k].n = OrderAsGiven(args.n_hidden, args.n)
        /\ Layers[Len(Layers)].n = OrderAsGiven(args.n_out, args.n)

====
